---- MODULE Spec2Model ----
(***************************************************************************)
(* A model of the embla-carousel facade (src/src/vanilla/index.ts).        *)
(*                                                                         *)
(* The facade owns one Engine at a time, re-creates it on reInit and on a  *)
(* resize that finds a changed container size, and tears it down on        *)
(* destroy.  The facade's code is translated statement by statement; the   *)
(* components it imports (Engine, Index, ScrollBody, Animation, ScrollTo,  *)
(* DragHandler, Limit, SlidesInView, ScrollProgress, EventEmitter,         *)
(* EventStore) are not part of the sources at hand and are modelled from   *)
(* their description in spec.md (sections 3 to 6).                         *)
(*                                                                         *)
(* Lengths are integers.  Slides all have the extent SlideSize, the        *)
(* viewport has the extent the container measures.  The scroll position    *)
(* runs from 0 (start) towards negative values (end), as in the            *)
(* ScrollProgress test (src/unnamed/part_000).                             *)
(*                                                                         *)
(* Not modelled: CSS classes (addClass/removeClass), the render sink, the  *)
(* clones SlideLooper places; they carry no state any operation reads.     *)
(***************************************************************************)
EXTENDS Integers, Sequences, FiniteSets

(***************************************************************************)
(* Bounds of the model.                                                    *)
(***************************************************************************)
MaxSlides == 3
SlideSize == 2

SlideCounts == 1..MaxSlides
ContainerSizes == {SlideSize, 2 * SlideSize}
Selectors == {"a", "b"}
GroupSizes == {1, 2}

(***************************************************************************)
(* Arithmetic helpers.                                                     *)
(***************************************************************************)
Abs(x) == IF x < 0 THEN -x ELSE x

Min2(a, b) == IF a < b THEN a ELSE b

Max2(a, b) == IF a > b THEN a ELSE b

\* JavaScript's % : the result takes the sign of the dividend.
JsMod(a, b) == IF a >= 0 THEN a % b ELSE -((-a) % b)

\* Division of a fixed-point number, rounding to the nearest integer, a
\* half away from zero (Math.round on the magnitude).
RoundDiv(a, b) ==
    IF a >= 0 THEN (2 * a + b) \div (2 * b) ELSE -((2 * (-a) + b) \div (2 * b))

\* The ascending sequence of the elements of a finite set of integers.
RECURSIVE SortedSeq(_)
SortedSeq(S) ==
    IF S = {} THEN <<>>
    ELSE LET m == CHOOSE x \in S : \A y \in S : x <= y
         IN <<m>> \o SortedSeq(S \ {m})

Range(seq) == {seq[k] : k \in 1..Len(seq)}

\* Array.prototype.indexOf(x) === -1
NotIn(seq, x) == \A k \in 1..Len(seq) : seq[k] # x

(***************************************************************************)
(* defaultOptions (components/options), the options the facade reads.      *)
(* A class option is TRUE when the class name is a non-empty string.       *)
(***************************************************************************)
defaultOptions ==
    [ containerSelector |-> "a",
      draggable         |-> TRUE,
      draggingClass     |-> TRUE,
      selectedClass     |-> TRUE,
      loop              |-> FALSE,
      slidesToScroll    |-> 1,
      startIndex        |-> 0 ]

OptionKeys == DOMAIN defaultOptions

\* Object.assign(target, source): source's keys override target's.
Assign(target, source) ==
    [k \in DOMAIN target \cup DOMAIN source |->
        IF k \in DOMAIN source THEN source[k] ELSE target[k]]

(***************************************************************************)
(* Measurements of one engine: e is the record Engine() builds.            *)
(***************************************************************************)
ContentSize(e) == e.slides * SlideSize

\* One snap per group of slidesToScroll slides.
SnapCount(e) == (e.slides + e.slidesToScroll - 1) \div e.slidesToScroll

\* engine.snapIndexes: 0 .. snaps-1, in order.
SnapIndexes(e) == [k \in 1..SnapCount(e) |-> k - 1]

\* The end of the scrollable range when the content is bounded.
ContainEnd(e) == -Max2(ContentSize(e) - e.viewSize, 0)

\* engine.scrollSnaps: the offset aligning each group's first slide to the
\* viewport start, clamped into the scrollable range unless looping.
ScrollSnaps(e) ==
    [k \in 1..SnapCount(e) |->
        LET raw == -((k - 1) * e.slidesToScroll * SlideSize)
        IN IF e.loop THEN raw ELSE Max2(raw, ContainEnd(e))]

\* ScrollLimit({contentSize, loop}).measure(scrollSnaps)
LimitMeasure(scrollSnaps, contentSize, loop) ==
    LET startSnap == scrollSnaps[1]
        endSnap   == scrollSnaps[Len(scrollSnaps)]
    IN [ min |-> IF loop THEN startSnap - contentSize ELSE endSnap,
         max |-> startSnap ]

EngineLimit(e) == LimitMeasure(ScrollSnaps(e), ContentSize(e), e.loop)

\* limit.constrain
Constrain(limit, v) == Max2(limit.min, Min2(limit.max, v))

\* limit.removeOffset: v reduced modulo the range's length into the range.
RemoveOffset(limit, v) ==
    LET length == limit.max - limit.min
    IN IF length = 0 THEN limit.max
       ELSE limit.max - ((limit.max - v) % length)

\* Index: set/add wrap when looping, clamp otherwise.
IndexSet(e, n) ==
    LET len == SnapCount(e)
    IN IF e.loop THEN (JsMod(n, len) + len) % len
       ELSE Max2(0, Min2(len - 1, n))

\* index.clone().add(n).get()
IndexAdd(e, n) == IndexSet(e, e.index + n)

\* SlidesInView.check(location): the slide indices whose extent overlaps
\* the viewport at location, in ascending order; when looping, a slide is
\* also seen at its extent shifted by the content size either way.
SlideOverlaps(e, i, shift, location) ==
    LET start == i * SlideSize + shift
        end   == start + SlideSize
        left  == -location
    IN start < left + e.viewSize /\ end > left

SlidesInViewCheck(e, location) ==
    LET shifts == IF e.loop THEN {-ContentSize(e), 0, ContentSize(e)} ELSE {0}
    IN SortedSeq({i \in 0..(e.slides - 1) :
                     \E sh \in shifts : SlideOverlaps(e, i, sh, location)})

\* ScrollProgress({limit}).get(n) = (n - max) / (min - max), kept as the
\* fraction num/den the division is taken of.
ScrollProgressGet(limit, n) ==
    [num |-> n - limit.max, den |-> limit.min - limit.max]

\* Comparison of two fractions with non-zero denominators.
FracSign(d) == IF d < 0 THEN -1 ELSE 1

FracEq(p, q) == p.num * q.den = q.num * p.den

FracLeq(p, q) ==
    p.num * q.den * FracSign(p.den) * FracSign(q.den)
        <= q.num * p.den * FracSign(p.den) * FracSign(q.den)

FracOf(n, d) == [num |-> n, den |-> d]

(***************************************************************************)
(* State.                                                                  *)
(***************************************************************************)
VARIABLES
    phase,          \* "new": EmblaCarousel() not called yet; "live": it
                    \* returned the carousel; "failed": it threw
    sliderRoot,     \* TRUE when the root node passed to EmblaCarousel exists
    dom,            \* the document: the selectors that match a container
                    \* under the root, its number of children, its size
    options,        \* let options (line 46)
    activated,      \* let activated (line 45)
    containerSize,  \* let containerSize (line 47)
    container,      \* let container (line 48): the selector that matched
    slides,         \* let slides (line 49): the number of slide nodes
    engine,         \* let engine (line 44)
    listeners,      \* the EventEmitter's subscriptions (const events)
    eventStore,     \* the EventStore's DOM listeners (const eventStore)
    dragEvents,     \* the drag handlers whose activation listeners are attached
    raf,            \* the animation frames scheduled, per owner
    timers,         \* the timers pending: "init" (setTimeout 0), "resize" (debounce)
    emitted,        \* the events the last operation emitted, in order
    lastOp,         \* the last operation and its argument
    thrown          \* the error the last operation threw, "" when none

vars == << phase, sliderRoot, dom, options, activated, containerSize,
           container, slides, engine, listeners, eventStore, dragEvents,
           raf, timers, emitted, lastOp, thrown >>

\* The facade's mutable state as one record: the operations below take it
\* and return it changed, so that one handler can call another.
Cur ==
    [ options       |-> options,
      activated     |-> activated,
      containerSize |-> containerSize,
      container     |-> container,
      slides        |-> slides,
      engine        |-> engine,
      listeners     |-> listeners,
      eventStore    |-> eventStore,
      dragEvents    |-> dragEvents,
      raf           |-> raf,
      timers        |-> timers,
      emitted       |-> <<>>,
      thrown        |-> "" ]

\* engine = {} as Engine (line 169), and engine before the first activation.
EmptyEngine ==
    [ live           |-> FALSE,
      slides         |-> 0,
      slidesToScroll |-> 1,
      loop           |-> FALSE,
      viewSize       |-> 0,
      index          |-> 0,
      indexPrevious  |-> 0,
      location       |-> 0,
      target         |-> 0,
      velocity       |-> 0,
      running        |-> FALSE,
      pointerDown    |-> FALSE ]

Throw(s, err) == [s EXCEPT !.thrown = err]

\* axis.measure(node): a container that left the document measures 0.
Measure(sel) == IF sel \in dom.containers THEN dom.size ELSE 0

(***************************************************************************)
(* The engine's components, from spec.md.                                  *)
(***************************************************************************)

\* The tolerance of "settled" (spec.md 4.4): one unit of length.
Eps == 1

\* ScrollBody: location and velocity are within the tolerance of the target
\* and of rest.
Settled(e) == Abs(e.target - e.location) < Eps /\ Abs(e.velocity) < Eps

\* ScrollBody, one simulation tick (spec.md 4.4):
\*     velocity = (velocity + diff * springConstant) * friction
\*     location = location + velocity
\* with springConstant 2 and friction 1/4, in fixed point; a settled body
\* does not move.
BodyTick(e) ==
    IF Settled(e) THEN e
    ELSE LET diff == e.target - e.location
             v    == RoundDiv(e.velocity + diff * 2, 4)
         IN [e EXCEPT !.velocity = v, !.location = e.location + v]

\* EventEmitter.emit: the event is recorded and its listeners run.  Of the
\* facade's listeners only dragHandler.removeInteractionEvents changes state
\* that is modelled: it ends the drag of the engine it belongs to.
Emit(s, evt) ==
    LET ends == [evt |-> evt, cb |-> "removeInteractionEvents", owner |-> "engine"]
                    \in s.listeners
    IN [s EXCEPT !.emitted = Append(s.emitted, evt),
                 !.engine.pointerDown = IF ends THEN FALSE ELSE @]

\* EventEmitter.on / off: a subscription is an event, a callback and the
\* object the callback is bound to.
On(s, evt, cb, owner) ==
    [s EXCEPT !.listeners = @ \cup {[evt |-> evt, cb |-> cb, owner |-> owner]}]

Off(s, evt, cb, owner) ==
    [s EXCEPT !.listeners = @ \ {[evt |-> evt, cb |-> cb, owner |-> owner]}]

\* EventStore.add: the store keeps its listeners in the order added.
DomListener(node, index, type) == [node |-> node, index |-> index, type |-> type]

WindowResizeListener == DomListener("window", 0, "resize")

SlideFocusListener(index) == DomListener("slide", index, "focus")

EventStoreAdd(s, listener) ==
    [s EXCEPT !.eventStore = Append(@, listener)]

\* EventStore.removeAll
EventStoreRemoveAll(s) == [s EXCEPT !.eventStore = <<>>]

\* Animation.start without its guard: every call requests a frame.
AnimationStartAlways(s) ==
    [s EXCEPT !.engine.running = TRUE, !.raf.engine = @ + 1]

\* Animation.start: no-op while Running, else one frame is requested.
AnimationStart(s) ==
    IF s.engine.running THEN s
    ELSE [s EXCEPT !.engine.running = TRUE, !.raf.engine = @ + 1]

\* Animation.stop: the frame requested, if any, is cancelled.
AnimationStop(s) ==
    [s EXCEPT !.engine.running = FALSE, !.raf.engine = 0]

\* ScrollTo.index(n, direction): Index and target are set, select is emitted
\* when the index changed, and the animation is started; a request for the
\* index and the target already current is a no-op (spec.md 7).
ScrollToIndex(s, n) ==
    LET e      == s.engine
        idx    == IndexSet(e, n)
        snap   == ScrollSnaps(e)[idx + 1]
        moved  == [s EXCEPT !.engine.indexPrevious = e.index,
                            !.engine.index = idx,
                            !.engine.target = snap]
        aimed  == [s EXCEPT !.engine.target = snap]
    IN IF idx # e.index THEN AnimationStart(Emit(moved, "select"))
       ELSE IF snap # e.target THEN AnimationStart(aimed)
       ELSE s

\* SlideLooper.canLoop: there is content beyond the viewport to wrap.
CanLoop(e) == ContentSize(e) > e.viewSize

\* Engine(sliderRoot, container, slides, options, events): a new engine,
\* measured now, at rest on the snap of options.startIndex.  What belonged
\* to the engine it replaces now belongs to a discarded engine.
Discarded(owner) == IF owner = "engine" THEN "discarded" ELSE owner

Discard(s) ==
    [s EXCEPT !.listeners  = {[l EXCEPT !.owner = Discarded(l.owner)] : l \in @},
              !.dragEvents = {Discarded(o) : o \in @},
              !.raf        = [engine |-> 0, discarded |-> @.discarded + @.engine]]

Engine(s) ==
    LET m   == [EmptyEngine EXCEPT !.live = TRUE,
                                   !.slides = s.slides,
                                   !.slidesToScroll = s.options.slidesToScroll,
                                   !.loop = s.options.loop,
                                   !.viewSize = Measure(s.container)]
        idx == IndexSet(m, s.options.startIndex)
        at  == ScrollSnaps(m)[idx + 1]
    IN [m EXCEPT !.index = idx, !.indexPrevious = idx,
                 !.location = at, !.target = at]

(***************************************************************************)
(* The facade, src/src/vanilla/index.ts.                                   *)
(***************************************************************************)

\* storeElements (lines 53-63): reads the selector of the options as they
\* are when it is called.
StoreElements(s) ==
    IF ~sliderRoot THEN Throw(s, "Missing root node")
    ELSE IF s.options.containerSelector \notin dom.containers
         THEN Throw(s, "Missing container node")
    ELSE [s EXCEPT !.container = s.options.containerSelector,
                   !.slides = dom.slides]

\* slideFocusEvent (lines 131-139), for every slide (line 88).
RECURSIVE AddFocusEvents(_, _)
AddFocusEvents(s, i) ==
    IF i >= s.slides THEN s
    ELSE AddFocusEvents(EventStoreAdd(s, SlideFocusListener(i)), i + 1)

\* deActivate without line 153: the animation is left as it is.
DeActivateKeepsAnimation(s) ==
    LET s1 == [s EXCEPT !.dragEvents = @ \ {"engine"}]
        s2 == [s1 EXCEPT !.engine.pointerDown = FALSE]
        s4 == EventStoreRemoveAll(s2)
        s5 == Off(s4, "select", "toggleSelectedClass", "facade")
        s6 == Off(s5, "pointerUp", "toggleSelectedClass", "facade")
        s7 == Off(s6, "pointerDown", "toggleDraggingClass", "facade")
    IN Off(s7, "pointerUp", "toggleDraggingClass", "facade")

\* deActivate (lines 149-163)
DeActivate(s) ==
    LET s1 == [s EXCEPT !.dragEvents = @ \ {"engine"}]        \* line 151
        s2 == [s1 EXCEPT !.engine.pointerDown = FALSE]         \* line 152
        s3 == AnimationStop(s2)                                \* line 153
        s4 == EventStoreRemoveAll(s3)                          \* line 154
        s5 == Off(s4, "select", "toggleSelectedClass", "facade")
        s6 == Off(s5, "pointerUp", "toggleSelectedClass", "facade")
        s7 == Off(s6, "pointerDown", "toggleDraggingClass", "facade")
    IN Off(s7, "pointerUp", "toggleDraggingClass", "facade")

\* activate, lines 95-110: the emitter subscriptions the options ask for.
Subscribe(s) ==
    LET o  == s.options
        s1 == IF o.draggable
              THEN IF o.draggingClass
                   THEN On(On(s, "pointerDown", "toggleDraggingClass", "facade"),
                           "pointerUp", "toggleDraggingClass", "facade")
                   ELSE s
              ELSE On(s, "pointerDown", "removeInteractionEvents", "engine")
    IN IF o.selectedClass
       THEN On(On(s1, "select", "toggleSelectedClass", "facade"),
               "pointerUp", "toggleSelectedClass", "facade")
       ELSE s1

\* activate, lines 111-114
MarkActivated(s) ==
    IF ~s.activated
    THEN [s EXCEPT !.timers = @ \cup {"init"}, !.activated = TRUE]
    ELSE s

RECURSIVE Activate(_, _)
RECURSIVE ReActivate(_, _)

\* activate without lines 91-93: a carousel that cannot loop is activated
\* with loop as asked.
ActivateRestKeepsLoop(s) ==
    LET s3 == [Discard(s) EXCEPT !.engine = Engine(s)]
        s4 == [s3 EXCEPT !.containerSize = Measure(s3.container)]
        s5 == EventStoreAdd(s4, WindowResizeListener)
        s6 == AddFocusEvents(s5, 0)
        s7 == [s6 EXCEPT !.dragEvents = @ \cup {"engine"}]
    IN MarkActivated(Subscribe(s7))

\* activate, lines 68-114: what follows the merge of the options.
ActivateRest(s) ==
    LET s3 == [Discard(s) EXCEPT !.engine = Engine(s)]                  \* 68
        s4 == [s3 EXCEPT !.containerSize = Measure(s3.container)]       \* 85
        s5 == EventStoreAdd(s4, WindowResizeListener)                   \* 86
        s6 == AddFocusEvents(s5, 0)                                     \* 88
        s7 == [s6 EXCEPT !.dragEvents = @ \cup {"engine"}]              \* 89
    IN IF s7.options.loop /\ ~CanLoop(s7.engine)                        \* 91-92
       THEN ReActivate(s7, [loop |-> FALSE])
       ELSE MarkActivated(Subscribe(s7))                                \* 95-114

\* activate with lines 66 and 67 exchanged: the options are merged before
\* the elements are looked up.
ActivateMergesFirst(s, partialOptions) ==
    LET s1 == StoreElements([s EXCEPT !.options = Assign(@, partialOptions)])
    IN IF s1.thrown # "" THEN s1 ELSE ActivateRest(s1)

\* activate (lines 65-115)
Activate(s, partialOptions) ==
    LET s1 == StoreElements(s)                                          \* 66
    IN IF s1.thrown # "" THEN s1
       ELSE ActivateRest([s1 EXCEPT !.options = Assign(@, partialOptions)])

\* reActivate without line 142: the current index is not handed on.
ReActivateDropsIndex(s, partialOptions) ==
    IF ~s.engine.live THEN Throw(s, "TypeError")
    ELSE LET s1 == Activate(DeActivate(s), partialOptions)
         IN IF s1.thrown # "" THEN s1 ELSE Emit(s1, "reInit")

\* reActivate (lines 141-147), also reInit (line 41).  Reading index of the
\* emptied engine of a destroyed carousel throws a TypeError.
ReActivate(s, partialOptions) ==
    IF ~s.engine.live THEN Throw(s, "TypeError")
    ELSE LET startIndex == s.engine.index                               \* 142
             newOptions == Assign([startIndex |-> startIndex], partialOptions)
             s1 == Activate(DeActivate(s), newOptions)                  \* 144-145
         IN IF s1.thrown # "" THEN s1 ELSE Emit(s1, "reInit")           \* 146

\* destroy without line 167: the engine is emptied without being
\* deactivated.
DestroySkipsDeActivate(s) ==
    IF ~s.activated THEN s
    ELSE Emit([Discard(s) EXCEPT !.activated = FALSE, !.engine = EmptyEngine],
              "destroy")

\* destroy (lines 165-171)
Destroy(s) ==
    IF ~s.activated THEN s
    ELSE LET s1 == DeActivate(s)
             s2 == [Discard(s1) EXCEPT !.activated = FALSE,
                                       !.engine = EmptyEngine]
         IN Emit(s2, "destroy")

\* resize without the comparison of line 175: it always re-activates.
ResizeAlways(s) ==
    IF ~s.engine.live THEN Throw(s, "TypeError")
    ELSE LET s1 == ReActivate(s, <<>>)
         IN IF s1.thrown # "" THEN s1 ELSE Emit(s1, "resize")

\* resize (lines 173-177)
Resize(s) ==
    IF ~s.engine.live THEN Throw(s, "TypeError")
    ELSE LET newContainerSize == Measure(s.container)
             s1 == IF s.containerSize # newContainerSize
                   THEN ReActivate(s, <<>>)
                   ELSE s
         IN IF s1.thrown # "" THEN s1 ELSE Emit(s1, "resize")

\* slidesInView (lines 179-183)
SlidesInView(s, target) ==
    LET e        == s.engine
        location == IF target THEN e.target ELSE e.location
        limit    == EngineLimit(e)
        at       == IF s.options.loop THEN RemoveOffset(limit, location)
                    ELSE Constrain(limit, location)
    IN SlidesInViewCheck(e, at)

\* slidesNotInView (lines 185-188)
SlidesNotInView(s, target) ==
    LET inView == SlidesInView(s, target)
        Absent(i) == NotIn(inView, i)
    IN SelectSeq(SnapIndexes(s.engine), Absent)

\* scrollSnapList (lines 190-193)
ScrollSnapList(s) ==
    LET snaps == ScrollSnaps(s.engine)
    IN [k \in 1..Len(snaps) |-> ScrollProgressGet(EngineLimit(s.engine), snaps[k])]

\* scrollTo taking its argument as a position counted from 1.
ScrollToFromOne(s, index) ==
    IF ~s.engine.live THEN Throw(s, "TypeError")
    ELSE ScrollToIndex(s, index + 1)

\* scrollTo (lines 195-198); the mass and speed of the body are not modelled.
ScrollTo(s, index) ==
    IF ~s.engine.live THEN Throw(s, "TypeError")
    ELSE ScrollToIndex(s, index)

\* scrollNext (lines 200-204)
ScrollNext(s) ==
    IF ~s.engine.live THEN Throw(s, "TypeError")
    ELSE ScrollToIndex(s, IndexAdd(s.engine, 1))

\* scrollPrev with the step of scrollNext.
ScrollPrevForward(s) ==
    IF ~s.engine.live THEN Throw(s, "TypeError")
    ELSE ScrollToIndex(s, IndexAdd(s.engine, 1))

\* scrollPrev (lines 206-210)
ScrollPrev(s) ==
    IF ~s.engine.live THEN Throw(s, "TypeError")
    ELSE ScrollToIndex(s, IndexAdd(s.engine, -1))

\* canScrollPrev (lines 212-215); index.min is 0
CanScrollPrev(s) == s.options.loop \/ s.engine.index # 0

\* canScrollNext (lines 217-220); index.max is the last snap's index
CanScrollNext(s) == s.options.loop \/ s.engine.index # SnapCount(s.engine) - 1

\* scrollProgress reading the target instead of the location.
ScrollProgressOfTarget(s) ==
    ScrollProgressGet(EngineLimit(s.engine), s.engine.target)

\* scrollProgress (lines 222-225)
ScrollProgress(s) ==
    ScrollProgressGet(EngineLimit(s.engine), s.engine.location)

\* selectedScrollSnap (lines 227-229)
SelectedScrollSnap(s) == s.engine.index

\* previousScrollSnap (lines 231-233)
PreviousScrollSnap(s) == s.engine.indexPrevious

\* The focus listener of slide index (lines 132-137)
FocusSlide(s, index) ==
    LET groupIndex    == index \div s.options.slidesToScroll
        selectedGroup == IF index # 0 THEN groupIndex ELSE index
    IN ScrollTo(s, selectedGroup)

\* The listeners the user subscribes with on(evt, cb) (lines 42, 258-259):
\* a callback that calls destroy() or reInit().  They run when the event is
\* emitted, after the facade's own listeners.
UserListener(evt, cb) == [evt |-> evt, cb |-> cb, owner |-> "user"]

RunUserListeners(s, evt) ==
    IF UserListener(evt, "destroy") \in s.listeners THEN Destroy(s)
    ELSE IF UserListener(evt, "reInit") \in s.listeners THEN ReActivate(s, <<>>)
    ELSE s

\* events.emit(evt) with the user's listeners run.
Deliver(s, evt) == RunUserListeners(Emit(s, evt), evt)

\* Animation, one frame, that requests the next frame also when it settles.
AnimationFrameRearms(s) ==
    LET s1 == [s EXCEPT !.engine = BodyTick(@)]
        s2 == Emit(s1, "scroll")
    IN IF Settled(s2.engine) /\ ~s2.engine.pointerDown
       THEN Emit(s2, "settle")
       ELSE s2

\* Animation, one frame (spec.md 4.5): the body advances, scroll is emitted,
\* and the loop either goes Idle, emitting settle, when the body is settled
\* and no drag is pending, or requests the next frame.  The frame's handle
\* (raf.engine) stays set while the callback runs; when stop() cleared it
\* inside the frame, a listener having destroyed or re-initialised the
\* carousel, the frame ends there and requests nothing (spec.md 5,
\* cancellation).
AnimationFrame(s) ==
    LET s1 == [s EXCEPT !.engine = BodyTick(@)]
        s2 == Deliver(s1, "scroll")
    IN IF s2.raf.engine = 0 THEN s2
       ELSE IF Settled(s2.engine) /\ ~s2.engine.pointerDown
            THEN Deliver(AnimationStop(s2), "settle")
            ELSE s2

\* DragHandler, pointer-down (spec.md 4.6): the interaction listeners are
\* attached and pointerDown is emitted; the body is not moved yet.
DragDown(s) ==
    Emit([s EXCEPT !.engine.pointerDown = TRUE], "pointerDown")

\* DragHandler, pointer-up: the snap the release projects to, index, is
\* handed to ScrollTo, and pointerUp is emitted.
DragUp(s, index) ==
    LET s1 == [s EXCEPT !.engine.pointerDown = FALSE]
    IN Emit(ScrollToIndex(s1, index), "pointerUp")

(***************************************************************************)
(* Actions: one per call of the facade, per callback the browser runs, and *)
(* per change of the document.                                             *)
(***************************************************************************)
\* lastOp: the operation, the option keys it was given, and its number: the
\* index or slide it was called with, or, for the operations that end an
\* engine, 1 when the animation was Running as they began.
Op(name, keys, n) == [name |-> name, keys |-> keys, n |-> n]

WasRunning == IF engine.running THEN 1 ELSE 0

Commit(s, op) ==
    /\ options' = s.options
    /\ activated' = s.activated
    /\ containerSize' = s.containerSize
    /\ container' = s.container
    /\ slides' = s.slides
    /\ engine' = s.engine
    /\ listeners' = s.listeners
    /\ eventStore' = s.eventStore
    /\ dragEvents' = s.dragEvents
    /\ raf' = s.raf
    /\ timers' = s.timers
    /\ emitted' = s.emitted
    /\ thrown' = s.thrown
    /\ lastOp' = op

\* EmblaCarousel(sliderRoot, userOptions) (lines 34-51, 251-272)
New(userOptions) ==
    /\ phase = "new"
    /\ LET s == Activate(Cur, userOptions)
       IN /\ Commit(s, Op("new", DOMAIN userOptions, 0))
          /\ phase' = IF s.thrown # "" THEN "failed" ELSE "live"
    /\ UNCHANGED << sliderRoot, dom >>

\* reInit(partialOptions)
ReInit(partialOptions) ==
    /\ phase = "live"
    /\ Commit(ReActivate(Cur, partialOptions), Op("reInit", DOMAIN partialOptions, WasRunning))
    /\ UNCHANGED << phase, sliderRoot, dom >>

\* destroy()
DestroyCall ==
    /\ phase = "live"
    /\ Commit(Destroy(Cur), Op("destroy", {}, WasRunning))
    /\ UNCHANGED << phase, sliderRoot, dom >>

\* The window fires resize: the store's listener, debouncedResize (line 40),
\* restarts its timer.
WindowResize ==
    /\ WindowResizeListener \in Range(eventStore)
    /\ Commit([Cur EXCEPT !.timers = @ \cup {"resize"}], Op("windowResize", {}, 0))
    /\ UNCHANGED << phase, sliderRoot, dom >>

\* The debounce timer fires: resize()
ResizeTimer ==
    /\ "resize" \in timers
    /\ Commit(Resize([Cur EXCEPT !.timers = @ \ {"resize"}]), Op("resize", {}, WasRunning))
    /\ UNCHANGED << phase, sliderRoot, dom >>

\* The timer of line 112 fires: events.emit('init')
InitTimer ==
    /\ "init" \in timers
    /\ Commit(Emit([Cur EXCEPT !.timers = @ \ {"init"}], "init"), Op("initTimer", {}, 0))
    /\ UNCHANGED << phase, sliderRoot, dom >>

\* scrollTo(index)
ScrollToCall(index) ==
    /\ phase = "live"
    /\ Commit(ScrollTo(Cur, index), Op("scrollTo", {}, index))
    /\ UNCHANGED << phase, sliderRoot, dom >>

\* scrollNext()
ScrollNextCall ==
    /\ phase = "live"
    /\ Commit(ScrollNext(Cur), Op("scrollNext", {}, 0))
    /\ UNCHANGED << phase, sliderRoot, dom >>

\* scrollPrev()
ScrollPrevCall ==
    /\ phase = "live"
    /\ Commit(ScrollPrev(Cur), Op("scrollPrev", {}, 0))
    /\ UNCHANGED << phase, sliderRoot, dom >>

\* A slide receives focus: the store's focus listener of that slide runs.
Focus(index) ==
    /\ SlideFocusListener(index) \in Range(eventStore)
    /\ Commit(FocusSlide(Cur, index), Op("focus", {}, index))
    /\ UNCHANGED << phase, sliderRoot, dom >>

\* The browser runs the animation frame the engine requested.
Frame ==
    /\ raf.engine > 0
    /\ Commit(AnimationFrame(Cur), Op("frame", {}, 0))
    /\ UNCHANGED << phase, sliderRoot, dom >>

\* on(evt, cb) (lines 42, 258-259): the user subscribes a listener; one at a
\* time is modelled.
OnCall(evt, cb) ==
    /\ phase = "live"
    /\ \A l \in listeners : l.owner # "user"
    /\ Commit(On(Cur, evt, cb, "user"), Op("on", {}, 0))
    /\ UNCHANGED << phase, sliderRoot, dom >>

\* The pointer goes down on the carousel.
PointerDown ==
    /\ "engine" \in dragEvents
    /\ ~engine.pointerDown
    /\ Commit(DragDown(Cur), Op("pointerDown", {}, 0))
    /\ UNCHANGED << phase, sliderRoot, dom >>

\* The pointer is released.
PointerUp(index) ==
    /\ engine.pointerDown
    /\ Commit(DragUp(Cur, index), Op("pointerUp", {}, index))
    /\ UNCHANGED << phase, sliderRoot, dom >>

\* The document changes: the container is laid out at another size, gets
\* or loses a slide, or a container appears or disappears.
DomChange(d) ==
    /\ d # dom
    /\ dom' = d
    /\ Commit(Cur, Op("dom", {}, 0))
    /\ UNCHANGED << phase, sliderRoot >>

(***************************************************************************)
(* Specifications.                                                         *)
(***************************************************************************)
InitFacade ==
    /\ phase = "new"
    /\ options = defaultOptions
    /\ activated = FALSE
    /\ containerSize = 0
    /\ container = "none"
    /\ slides = 0
    /\ engine = EmptyEngine
    /\ listeners = {}
    /\ eventStore = <<>>
    /\ dragEvents = {}
    /\ raf = [engine |-> 0, discarded |-> 0]
    /\ timers = {}
    /\ emitted = <<>>
    /\ lastOp = Op("none", {}, 0)
    /\ thrown = ""

Flags == [{"loop", "draggable", "draggingClass", "selectedClass"} -> BOOLEAN]

ScrollArgs == -1..MaxSlides

\* Scrolling: a carousel is built over a document that stays as it is, and
\* is scrolled by calls, by focus and by dragging.
InitScroll ==
    /\ InitFacade
    /\ sliderRoot = TRUE
    /\ dom \in [containers : {{"a"}}, slides : SlideCounts, size : ContainerSizes]

NextScroll ==
    \/ \E b \in BOOLEAN, g \in GroupSizes : New([loop |-> b, slidesToScroll |-> g])
    \/ \E i \in ScrollArgs : ScrollToCall(i)
    \/ ScrollNextCall
    \/ ScrollPrevCall
    \/ \E i \in 0..(MaxSlides - 1) : Focus(i)
    \/ Frame
    \/ PointerDown
    \/ \E i \in 0..(MaxSlides - 1) : PointerUp(i)

SpecScroll == InitScroll /\ [][NextScroll]_vars

\* Re-activation: a carousel is scrolled, re-initialised, resized and
\* destroyed while its container changes size and slides.
ReActivateDoms ==
    [containers : {{"a"}}, slides : {MaxSlides - 1, MaxSlides}, size : ContainerSizes]

InitReActivate ==
    /\ InitFacade
    /\ sliderRoot = TRUE
    /\ dom \in ReActivateDoms

NextReActivate ==
    \/ \E b \in BOOLEAN : New([loop |-> b])
    \/ ReInit(<<>>)
    \/ \E b \in BOOLEAN : ReInit([loop |-> b])
    \/ \E g \in GroupSizes : ReInit([slidesToScroll |-> g])
    \/ ReInit([startIndex |-> 0])
    \/ DestroyCall
    \/ WindowResize
    \/ ResizeTimer
    \/ ScrollNextCall
    \/ ScrollPrevCall
    \/ Frame
    \/ \E d \in ReActivateDoms : DomChange(d)

Spec == InitReActivate /\ [][NextReActivate]_vars

\* Life cycle: a carousel is built with any options over any document, and
\* re-initialised, resized and destroyed while containers come and go.
LifeDoms == [containers : SUBSET Selectors, slides : {2}, size : ContainerSizes]

InitLife ==
    /\ InitFacade
    /\ sliderRoot \in BOOLEAN
    /\ dom \in LifeDoms

NextLife ==
    \/ \E f \in Flags : New(f)
    \/ ReInit(<<>>)
    \/ \E b \in BOOLEAN : ReInit([loop |-> b])
    \/ \E b \in BOOLEAN : ReInit([draggable |-> b])
    \/ \E b \in BOOLEAN : ReInit([draggingClass |-> b])
    \/ \E b \in BOOLEAN : ReInit([selectedClass |-> b])
    \/ \E c \in Selectors : ReInit([containerSelector |-> c])
    \/ DestroyCall
    \/ WindowResize
    \/ ResizeTimer
    \/ InitTimer
    \/ \E d \in LifeDoms : DomChange(d)

SpecLife == InitLife /\ [][NextLife]_vars

\* Listeners: the user subscribes a listener that destroys or re-initialises
\* the carousel from inside an animation frame.
FrameEvents == {"scroll", "settle"}

ListenerCalls == {"destroy", "reInit"}

NextFrame ==
    \/ \E b \in BOOLEAN : New([loop |-> b])
    \/ \E evt \in FrameEvents, cb \in ListenerCalls : OnCall(evt, cb)
    \/ ScrollNextCall
    \/ ScrollPrevCall
    \/ Frame
    \/ PointerDown
    \/ \E i \in 0..(MaxSlides - 1) : PointerUp(i)

SpecFrame == InitScroll /\ [][NextFrame]_vars

(***************************************************************************)
(* Properties.                                                             *)
(***************************************************************************)
NoDuplicates(seq) == \A j, k \in 1..Len(seq) : seq[j] = seq[k] => j = k

Zero == FracOf(0, 1)

One == FracOf(1, 1)

Half == FracOf(1, 2)

\* A step that re-activated the carousel without a startIndex of the
\* caller's: reInit(options), or resize() finding another container size.
ReActivatedKeepingIndex ==
    /\ thrown' = ""
    /\ engine.live
    /\ \/ lastOp'.name = "reInit" /\ "startIndex" \notin lastOp'.keys
       \/ lastOp'.name = "resize" /\ containerSize # Measure(container)

SubscriptionsOf(o) ==
    {[evt |-> e, cb |-> "toggleDraggingClass", owner |-> "facade"] :
        e \in IF o.draggable /\ o.draggingClass THEN {"pointerDown", "pointerUp"} ELSE {}}
    \cup
    {[evt |-> "pointerDown", cb |-> "removeInteractionEvents", owner |-> "engine"] :
        x \in IF o.draggable THEN {} ELSE {0}}
    \cup
    {[evt |-> e, cb |-> "toggleSelectedClass", owner |-> "facade"] :
        e \in IF o.selectedClass THEN {"select", "pointerUp"} ELSE {}}

\* The DOM listeners activate puts into the event store (lines 86, 88).
StoreOf(n) ==
    <<WindowResizeListener>> \o [k \in 1..n |-> SlideFocusListener(k - 1)]

\* C2: the listeners subscribed on the emitter and held by the event store
\* are exactly those of the most recent activation, and none when the
\* carousel is deactivated (after destroy, or an activation that threw).
C2_OnlyListenersOfLastActivation ==
    phase = "live" =>
        IF "engine" \in dragEvents
        THEN listeners = SubscriptionsOf(options) /\ eventStore = StoreOf(slides)
        ELSE listeners = {} /\ eventStore = <<>>

\* C3: for either target flag, slidesInView and slidesNotInView are disjoint,
\* hold no duplicate, and together are exactly engine.snapIndexes.
C3_InViewPartitionsSnapIndexes ==
    engine.live =>
        \A target \in BOOLEAN :
            LET inView    == SlidesInView(Cur, target)
                notInView == SlidesNotInView(Cur, target)
            IN /\ Range(inView) \cap Range(notInView) = {}
               /\ NoDuplicates(inView)
               /\ NoDuplicates(notInView)
               /\ Range(inView) \cup Range(notInView) = Range(SnapIndexes(engine))

\* The setup of the ScrollProgress test (src/unnamed/part_000, lines 4-16).
testSnapSizes == <<80, 80, 80, 80, 80>>

testScrollSnaps == <<0, -80, -160, -240, -320>>

testContentSize == testSnapSizes[1] + testSnapSizes[2] + testSnapSizes[3]
                       + testSnapSizes[4] + testSnapSizes[5]

testLimit == LimitMeasure(testScrollSnaps, testContentSize, FALSE)

testScrollEnd == testLimit.min

testScrollStart == testLimit.max

testScrollHalf == testScrollEnd \div 2

\* C4: over a limit with min < max, ScrollProgress.get is 0 at max, 1 at
\* min, 1/2 at the midpoint, and linear and monotonic in between; so is the
\* facade's scrollProgress() of the current location; and the test's five
\* 80-unit snaps give 0 at 0, 1/2 at -160 and 1 at -320.
C4_ScrollProgress ==
    /\ FracEq(ScrollProgressGet(testLimit, testScrollStart), Zero)
    /\ FracEq(ScrollProgressGet(testLimit, testScrollHalf), Half)
    /\ FracEq(ScrollProgressGet(testLimit, testScrollEnd), One)
    /\ testScrollStart = 0 /\ testScrollHalf = -160 /\ testScrollEnd = -320
    /\ engine.live =>
        LET limit  == EngineLimit(engine)
            Get(n) == ScrollProgressGet(limit, n)
            at     == engine.location
        IN limit.min < limit.max =>
            /\ FracEq(Get(limit.max), Zero)
            /\ FracEq(Get(limit.min), One)
            /\ \A n \in limit.min..limit.max :
                /\ 2 * n = limit.min + limit.max => FracEq(Get(n), Half)
                /\ FracEq(Get(n), FracOf(limit.max - n, limit.max - limit.min))
                /\ \A m \in limit.min..n : FracLeq(Get(n), Get(m))
            /\ at = limit.max => FracEq(ScrollProgress(Cur), Zero)
            /\ at = limit.min => FracEq(ScrollProgress(Cur), One)
            /\ 2 * at = limit.min + limit.max => FracEq(ScrollProgress(Cur), Half)
            /\ FracEq(ScrollProgress(Cur), FracOf(limit.max - at, limit.max - limit.min))

\* C4: a frame has brought the carousel to the end of a range that is not
\* a single point, where scrollProgress() is 1.
C4_Witness ==
    /\ lastOp.name = "frame"
    /\ EngineLimit(engine).min < EngineLimit(engine).max
    /\ engine.location = EngineLimit(engine).min
    /\ FracEq(ScrollProgress(Cur), One)

\* The facade's view of the engine before and after a step.
Before == [engine |-> engine]

After == [engine |-> engine']

ScrollCalls == {"scrollTo", "scrollNext", "scrollPrev", "focus", "pointerUp"}

\* C5: with n snaps and the index at i, scrollNext() selects i+1 and
\* scrollPrev() selects i-1, modulo n when looping and clamped to 0..n-1
\* otherwise; and selectedScrollSnap() is always within 0..n-1.
C5_NextPrevNormalised ==
    /\ [](engine.live => SelectedScrollSnap(Cur) \in 0..(SnapCount(engine) - 1))
    /\ [][LET n == SnapCount(engine)
              i == SelectedScrollSnap(Before)
          IN /\ lastOp'.name = "scrollNext" /\ engine.live =>
                    SelectedScrollSnap(After) =
                        IF engine.loop THEN (i + 1) % n ELSE Min2(i + 1, n - 1)
             /\ lastOp'.name = "scrollPrev" /\ engine.live =>
                    SelectedScrollSnap(After) =
                        IF engine.loop THEN (i + n - 1) % n ELSE Max2(i - 1, 0)]_vars

\* C5: scrollPrev() on the first snap of a looping carousel selected the last.
C5_Witness ==
    /\ lastOp.name = "scrollPrev"
    /\ engine.loop
    /\ SnapCount(engine) > 2
    /\ PreviousScrollSnap(Cur) = 0
    /\ SelectedScrollSnap(Cur) = SnapCount(engine) - 1

\* A step that starts an activation while the root or the container the
\* stored options select is missing.
ActivatedWithoutElements ==
    /\ StoreElements(Cur).thrown # ""
    /\ \/ lastOp'.name = "new"
       \/ lastOp'.name = "reInit" /\ engine.live
       \/ lastOp'.name = "resize" /\ engine.live /\ containerSize # Measure(container)

\* C6: an activation started while the root or the container is missing
\* throws at once: no engine is built, no listener is registered and the
\* stored options are as they were (a re-activation has deactivated the old
\* engine before).
C6_NoPartialEngine ==
    [][ActivatedWithoutElements =>
        /\ thrown' = StoreElements(Cur).thrown
        /\ options' = options
        /\ engine' = [engine EXCEPT !.running = FALSE, !.pointerDown = FALSE]
        /\ listeners' \subseteq listeners
        /\ eventStore' = <<>>
        /\ "engine" \notin dragEvents'
        /\ container' = container /\ slides' = slides
        /\ containerSize' = containerSize
        /\ activated' = activated
        /\ emitted' = <<>>
        /\ lastOp'.name = "new" => phase' = "failed"]_vars

\* C6: reInit threw for a missing container and left the old engine.
C6_Witness ==
    /\ lastOp.name = "reInit"
    /\ thrown = "Missing container node"
    /\ engine.live
    /\ eventStore = <<>>
    /\ activated

\* C7: scrollTo(i) with i the selected index, on a carousel at rest, throws
\* nothing, leaves index, previous index, target and location as they are
\* and emits no select.
C7_ScrollToCurrentIsNoOp ==
    [][ /\ lastOp'.name = "scrollTo"
        /\ engine.live
        /\ lastOp'.n = SelectedScrollSnap(Before)
        /\ Settled(engine) /\ ~engine.running /\ ~engine.pointerDown
        => /\ thrown' = ""
           /\ SelectedScrollSnap(After) = SelectedScrollSnap(Before)
           /\ PreviousScrollSnap(After) = PreviousScrollSnap(Before)
           /\ engine'.target = engine.target
           /\ engine'.location = engine.location
           /\ "select" \notin Range(emitted')]_vars

\* C7: scrollTo was called with the selected index, not the first, at rest.
C7_Witness ==
    /\ lastOp.name = "scrollTo"
    /\ lastOp.n = SelectedScrollSnap(Cur)
    /\ lastOp.n > 0
    /\ PreviousScrollSnap(Cur) # SelectedScrollSnap(Cur)
    /\ Settled(engine) /\ ~engine.running /\ ~engine.pointerDown
    /\ emitted = <<>>

NoFrames == [engine |-> 0, discarded |-> 0]

\* C8: Animation.stop() leaves the loop Idle with no frame scheduled, from
\* Running and from Idle, and a second stop() changes nothing; deActivate
\* stops the animation in every case, so no frame of an engine that was
\* deactivated stays scheduled.
C8_StopIdempotent ==
    /\ [](LET once  == AnimationStop(Cur)
              twice == AnimationStop(once)
          IN /\ twice = once
             /\ ~once.engine.running /\ once.raf.engine = 0 /\ once.thrown = ""
             /\ ~engine.running => once = Cur
             /\ raf.discarded = 0
             /\ raf.engine > 0 => engine.live /\ engine.running)
    /\ [][ \/ lastOp'.name = "destroy" /\ activated
           \/ lastOp'.name = "reInit" /\ engine.live
           \/ lastOp'.name = "resize" /\ engine.live /\ containerSize # Measure(container)
           => raf' = NoFrames /\ ~engine'.running]_vars

\* C8: destroy() ended a carousel whose animation was Running.
C8_Witness ==
    /\ lastOp.name = "destroy"
    /\ lastOp.n = 1
    /\ emitted = <<"destroy">>
    /\ raf = NoFrames

C10_OneFrameScheduled ==
    /\ [](/\ raf.engine + raf.discarded <= 1
          /\ engine.running <=> raf.engine = 1)
    /\ [][ /\ lastOp'.name \in ScrollCalls /\ engine.running => raf' = raf
           /\ lastOp'.name = "frame" =>
                /\ engine'.location = BodyTick(engine).location
                /\ engine'.velocity = BodyTick(engine).velocity ]_vars

\* C10: scrollNext() was called while the body was moving, and one frame is
\* scheduled.
C10_Witness ==
    /\ lastOp.name = "scrollNext"
    /\ emitted = <<"select">>
    /\ engine.velocity # 0
    /\ engine.running
    /\ raf.engine = 1

\* A frame during which a listener called destroy() or reInit().
StoppedInsideFrame ==
    /\ lastOp'.name = "frame"
    /\ "destroy" \in Range(emitted') \/ "reInit" \in Range(emitted')

\* C11: when a listener run during a frame calls destroy() or reInit(), and
\* so Animation.stop(), the loop does not re-arm: as the frame returns no
\* frame is scheduled, of the engine that was stopped or of any other, and
\* none is ever scheduled for a discarded engine.
C11_StopInsideFrame ==
    /\ [](raf.discarded = 0)
    /\ [][StoppedInsideFrame => raf' = NoFrames /\ ~engine'.running]_vars

\* C11: a scroll listener re-initialised the carousel inside a frame whose
\* body was still moving towards a snap other than the first.
C11_Witness ==
    /\ lastOp.name = "frame"
    /\ emitted = <<"scroll", "reInit">>
    /\ engine.live /\ engine.index > 0
    /\ raf = NoFrames

\* C12: a resize notification waiting in the debounce when destroy() runs
\* leaves no callback behind: no resize timer is pending on a destroyed
\* carousel, and resize() never runs on the emptied engine, where reading
\* engine.axis throws.
C12_NoResizeAfterDestroy ==
    /\ [](phase = "live" /\ ~engine.live => "resize" \notin timers)
    /\ [][lastOp'.name = "resize" => engine.live /\ thrown' # "TypeError"]_vars

CountOf(seq, x) == Cardinality({k \in 1..Len(seq) : seq[k] = x})

\* A step that ran resize() on a carousel with an engine.
Resized == lastOp'.name = "resize" /\ engine.live

SizeChanged == containerSize # Measure(container)

\* resize() found the recorded size: nothing but the resize event.
ResizeLeftUntouched ==
    /\ engine' = engine
    /\ options' = options
    /\ listeners' = listeners /\ eventStore' = eventStore
    /\ dragEvents' = dragEvents
    /\ containerSize' = containerSize
    /\ emitted' = <<"resize">>

\* resize() re-activated: the engine is one built with the size the
\* container in use measures now, and reInit, which only a re-activation
\* emits, was emitted before the one resize.
ResizeReCreated ==
    /\ engine'.live
    /\ engine'.viewSize = Measure(container')
    /\ containerSize' = engine'.viewSize
    /\ CountOf(emitted', "resize") = 1
    /\ emitted'[Len(emitted')] = "resize"
    /\ "reInit" \in Range(emitted')
    /\ Range(emitted') = {"reInit", "resize"}

\* C13 as stated: resize() re-creates the engine exactly when the size
\* measured differs from the recorded one, and emits one resize event in
\* both cases, after reInit when it re-activated.
C13_ResizeIffSizeChanged ==
    [][Resized =>
        IF SizeChanged THEN ResizeReCreated ELSE ResizeLeftUntouched]_vars

\* C13: resize() re-activates exactly when the size measured differs from
\* the recorded one.  With the recorded size it leaves engine, index and
\* listeners untouched and emits one resize event.  With another size it
\* re-creates the engine and emits reInit and then one resize event, unless
\* the activation throws for a missing container: then the old engine is
\* left deactivated and neither reInit nor resize is emitted.
C13_ResizeIffSizeChangedUnlessThrown ==
    [][Resized =>
        IF ~SizeChanged THEN ResizeLeftUntouched /\ thrown' = ""
        ELSE IF StoreElements(Cur).thrown = "" THEN ResizeReCreated /\ thrown' = ""
        ELSE /\ thrown' = StoreElements(Cur).thrown
             /\ emitted' = <<>>
             /\ engine' = [engine EXCEPT !.running = FALSE, !.pointerDown = FALSE]
             /\ eventStore' = <<>>]_vars

\* C13: resize() found the container grown to two slides' size, re-created
\* the engine and emitted reInit, then resize.
C13_Witness ==
    /\ lastOp.name = "resize"
    /\ emitted = <<"reInit", "resize">>
    /\ engine.live
    /\ engine.viewSize = 2 * SlideSize
    /\ containerSize = 2 * SlideSize

\* A quotient that is a number: 0 / 0 is NaN.
IsNumber(p) == p.den # 0

\* C14: scrollSnapList() returns one progress value per scroll snap, in snap
\* order; every value is a number within 0..1, the list is non-decreasing and
\* the value of snap 0 is 0.
C14_ScrollSnapList ==
    engine.live =>
        LET list  == ScrollSnapList(Cur)
            snaps == ScrollSnaps(engine)
        IN /\ Len(list) = Len(snaps)
           /\ \A k \in 1..Len(list) :
                /\ list[k] = ScrollProgressGet(EngineLimit(engine), snaps[k])
                /\ IsNumber(list[k])
                /\ FracLeq(Zero, list[k]) /\ FracLeq(list[k], One)
                /\ \A j \in 1..k : FracLeq(list[j], list[k])
           /\ FracEq(list[1], Zero)

\* A step in which an activation found loop asked for on slides that cannot
\* loop and re-activated without it (line 92): the only place a second
\* reInit of one call, or a reInit of the constructor, comes from.
LoopAborted ==
    /\ thrown' = ""
    /\ \/ lastOp'.name = "new" /\ CountOf(emitted', "reInit") = 1
       \/ lastOp'.name \in {"reInit", "resize"} /\ CountOf(emitted', "reInit") = 2

\* C15: an activation asked to loop slides that cannot loop returns with the
\* carousel active and options.loop false, with one live engine built
\* without loop, one resize listener, one focus listener per slide and one
\* set of drag listeners, those of the new engine, and with the emitter
\* subscriptions of the options in effect; no activated engine ever loops
\* slides that cannot loop.
C15_LoopAborted ==
    /\ []("engine" \in dragEvents => /\ engine.live
                                      /\ engine.loop = options.loop
                                      /\ options.loop => CanLoop(engine))
    /\ [][LoopAborted =>
            /\ activated' /\ ~options'.loop
            /\ engine'.live /\ ~engine'.loop /\ ~CanLoop(engine')
            /\ engine'.slides = slides' /\ engine'.viewSize = containerSize'
            /\ eventStore' = StoreOf(slides')
            /\ dragEvents' = {"engine"}
            /\ {l \in listeners' : l.owner # "discarded"} = SubscriptionsOf(options')
            /\ raf' = NoFrames]_vars

\* C15: the constructor was asked to loop two slides that fill the
\* container exactly, and returned a carousel that does not loop.
C15_Witness ==
    /\ lastOp.name = "new"
    /\ "loop" \in lastOp.keys
    /\ emitted = <<"reInit">>
    /\ activated /\ ~options.loop
    /\ engine.live /\ ~CanLoop(engine)
    /\ eventStore = StoreOf(slides)

\* C16: a reInit(options) call that returns emits reInit exactly once and
\* nothing else, with the new engine activated.
C16_ReInitOnce ==
    [][lastOp'.name = "reInit" /\ thrown' = "" =>
        /\ emitted' = <<"reInit">>
        /\ engine'.live /\ "engine" \in dragEvents'
        /\ eventStore' = StoreOf(slides')]_vars

\* C17: once destroy() has run, no step emits an event: not the deferred
\* init, not a second destroy().
C17_NoEventAfterDestroy ==
    [][phase = "live" /\ ~activated => emitted' = <<>>]_vars

\* C18: when the constructor or reInit(options) returns, the container in
\* use is the one the containerSelector of the merged options matches, and
\* the slides are its children.
C18_ContainerOfMergedOptions ==
    [][lastOp'.name \in {"new", "reInit"} /\ thrown' = "" =>
        /\ container' = options'.containerSelector
        /\ container' \in dom.containers
        /\ slides' = dom.slides]_vars

\* C19: canScrollNext() is true exactly when scrollNext() would change
\* selectedScrollSnap(), and canScrollPrev() exactly when scrollPrev() would.
C19_CanScrollIffScrollChanges ==
    engine.live =>
        /\ CanScrollNext(Cur)
              <=> SelectedScrollSnap(ScrollNext(Cur)) # SelectedScrollSnap(Cur)
        /\ CanScrollPrev(Cur)
              <=> SelectedScrollSnap(ScrollPrev(Cur)) # SelectedScrollSnap(Cur)

====
